---- MODULE Spec2Model ----
(***************************************************************************)
(* FIR lowpass design by linear programming                                *)
(* (papers/scipy/code/signal/firlp_lowpass_example.py).                    *)
(*                                                                         *)
(* firlp_lowpass1 builds a frequency grid and a linear program, hands it   *)
(* to solve_linprog, which calls scipy's linprog under a                   *)
(* warnings.catch_warnings() block and turns the solution into taps.       *)
(*                                                                         *)
(* Real numbers are exact rationals [num, den] (den > 0, lowest terms).    *)
(* Frequencies are kept in units of pi, so wp = pi*a is the rational a;    *)
(* density = 16*numtaps/pi is kept in units of 1/pi.  Products such as     *)
(* wp*density are therefore computed exactly, where the program rounds     *)
(* them in float64; np.cos is a fixed-point rational approximation.        *)
(* linprog is an external solver: it may raise, warn, or return any point  *)
(* of the right length with or without success.                            *)
(***************************************************************************)
EXTENDS Integers, Sequences, FiniteSets, TLC

VARIABLES
    pc,               \* per caller: position in firlp_lowpass1 / solve_linprog
    args,             \* per caller: the arguments of firlp_lowpass1
    grid,             \* per caller: wp, ws, numfreqs_*, wpgrid, wsgrid
    lp,               \* per caller: c, A_ub, b_ub, A_eq, b_eq handed to solve_linprog
    saved,            \* per caller: catch_warnings._filters (a list identity)
    linprog_warning,  \* per caller: the local of solve_linprog
    result,           \* per caller: the local of solve_linprog
    pending,          \* per caller: exception propagating out of the with block
    outcome,          \* per caller: how the design call ended
    warned,           \* per caller: the warning linprog emitted during this call
    invoked,          \* per caller: linprog was called during this call
    lists,            \* the list objects holding warning filters, by identity
    filters,          \* warnings.filters: identity of the list in force
    filters0          \* the filter configuration before the first call

vars == <<pc, args, grid, lp, saved, linprog_warning, result, pending, outcome,
          warned, invoked, lists, filters, filters0>>

(* ------------------------------ bounds -------------------------------- *)

MaxNumtaps == 3
MaxVal == 1
MaxCutoff == 2
MaxWidth == 3
MaxR == 2

Threads == {1, 2}
None == [kind |-> "None"]

(* --------------------------- real arithmetic -------------------------- *)

Abs(a) == IF a < 0 THEN -a ELSE a

RECURSIVE Gcd(_, _)
Gcd(a, b) == IF b = 0 THEN a ELSE Gcd(b, a % b)

Rat(n, d) ==
    LET s == IF d < 0 THEN -1 ELSE 1
        g == Gcd(Abs(n), Abs(d))
    IN  [num |-> (s * n) \div g, den |-> (s * d) \div g]

Num(n) == [num |-> n, den |-> 1]
RatAdd(a, b) == Rat(a.num * b.den + b.num * a.den, a.den * b.den)
RatNeg(a) == [num |-> -a.num, den |-> a.den]
RatSub(a, b) == RatAdd(a, RatNeg(b))
RatMul(a, b) == Rat(a.num * b.num, a.den * b.den)
RatDiv(a, b) == Rat(a.num * b.den, a.den * b.num)
RatLeq(a, b) == a.num * b.den <= b.num * a.den
RatLt(a, b) == a.num * b.den < b.num * a.den
Ceil(a) == -((-a.num) \div a.den)
Half == Rat(1, 2)

RECURSIVE RatSum(_)
RatSum(s) == IF s = <<>> THEN Num(0) ELSE RatAdd(Head(s), RatSum(Tail(s)))

Dot(u, v) == RatSum([j \in 1..Len(u) |-> RatMul(u[j], v[j])])
Reverse(s) == [j \in 1..Len(s) |-> s[Len(s) + 1 - j]]
Scale(k, s) == [j \in 1..Len(s) |-> RatMul(k, s[j])]

(* np.cos of pi*q, rounded down to a multiple of 1/CosScale.  The value    *)
(* comes from Bhaskara's rational approximation                            *)
(* cos(pi*r) ~ (1 - 4r^2)/(1 + r^2) on [0, 1/2], extended by the           *)
(* symmetries of the cosine; it is exact at 0, 1/3, 1/2, 2/3 and 1.        *)
CosScale == 1000

CosFirstQuadrant(r) ==
    Rat((CosScale * (r.den * r.den - 4 * r.num * r.num))
            \div (r.den * r.den + r.num * r.num), CosScale)

CosPi(q) ==
    LET m  == Abs(q.num) % (2 * q.den)
        r2 == Rat(m, q.den)
        r  == IF RatLt(Num(1), r2) THEN RatSub(Num(2), r2) ELSE r2
    IN  IF RatLeq(r, Half) THEN CosFirstQuadrant(r)
        ELSE RatNeg(CosFirstQuadrant(RatSub(Num(1), r)))

(* --------------------------- firlp_lowpass1 --------------------------- *)

(* np.linspace(start, stop, num): num evenly spaced points, both ends      *)
(* included; a negative num raises ValueError.                             *)
LinspaceRaises(num) == num < 0

Linspace(start, stop, num) ==
    IF num <= 0 THEN <<>>
    ELSE IF num = 1 THEN <<start>>
    ELSE LET step == RatDiv(RatSub(stop, start), Num(num - 1))
         IN  [j \in 1..num |-> RatAdd(start, RatMul(Num(j - 1), step))]

\* wpgrid[1:] -- an empty array stays empty
DropFirst_KeepsAll(s) == s

DropFirst(s) == IF s = <<>> THEN <<>> ELSE Tail(s)

BandEdges(a) ==
    [wp |-> RatDiv(RatSub(Num(a.cutoff), RatMul(Half, Num(a.width))),
                   RatMul(Half, Num(a.fs))),
     ws |-> RatDiv(RatAdd(Num(a.cutoff), RatMul(Half, Num(a.width))),
                   RatMul(Half, Num(a.fs)))]

Density(a) == Num(16 * a.numtaps)

NumfreqsPass(a) == Ceil(RatMul(BandEdges(a).wp, Density(a)))
NumfreqsStop(a) == Ceil(RatMul(RatSub(Num(1), BandEdges(a).ws), Density(a)))

GridRaises(a) == LinspaceRaises(NumfreqsPass(a)) \/ LinspaceRaises(NumfreqsStop(a))

BuildGrid(a) ==
    LET e == BandEdges(a)
    IN  [wp |-> e.wp, ws |-> e.ws,
         numfreqs_pass |-> NumfreqsPass(a),
         numfreqs_stop |-> NumfreqsStop(a),
         wpgrid |-> DropFirst(Linspace(Num(0), e.wp, NumfreqsPass(a))),
         wsgrid |-> Linspace(e.ws, Num(1), NumfreqsStop(a))]

HalfLength(numtaps) == (numtaps - 1) \div 2

Weights(a, g) ==
    [j \in 1..Len(g.wpgrid) |-> RatDiv(Num(1), a.deltap)]
        \o [j \in 1..Len(g.wsgrid) |-> RatDiv(Num(1), a.deltas)]

Desired(g) ==
    [j \in 1..Len(g.wpgrid) |-> Num(1)] \o [j \in 1..Len(g.wsgrid) |-> Num(0)]

CosRow(w, R) == [k \in 1..(R + 1) |-> CosPi(RatMul(w, Num(k - 1)))]

\* A = np.block([[C, -V], [-C, -V]]): the upper rows, then the lower rows
InequalityRows_LowerNotNegated(C, V) ==
    [i \in 1..Len(C) |-> C[i] \o <<RatNeg(V[i])>>]
        \o [i \in 1..Len(C) |-> C[i] \o <<RatNeg(V[i])>>]

InequalityRows(C, V) ==
    [i \in 1..Len(C) |-> C[i] \o <<RatNeg(V[i])>>]
        \o [i \in 1..Len(C) |-> Scale(Num(-1), C[i]) \o <<RatNeg(V[i])>>]

\* c = np.zeros(R+2); c[-1] = 1
Objective(R) == [j \in 1..(R + 2) |-> IF j = R + 2 THEN Num(1) ELSE Num(0)]

\* A_eq = np.ones((1, R+2)); A_eq[:, -1] = 0; b_eq = np.array([1])
EqualityConstraint_SlackIncluded(R) ==
    [A_eq |-> <<[j \in 1..(R + 2) |-> Num(1)]>>, b_eq |-> <<Num(1)>>]

EqualityConstraint(R) ==
    [A_eq |-> <<[j \in 1..(R + 2) |-> IF j = R + 2 THEN Num(0) ELSE Num(1)]>>,
     b_eq |-> <<Num(1)>>]

BuildLP(a, g) ==
    LET wgrid   == g.wpgrid \o g.wsgrid
        N       == Len(wgrid)
        weights == Weights(a, g)
        desired == Desired(g)
        R       == HalfLength(a.numtaps)
        C       == [i \in 1..N |-> CosRow(wgrid[i], R)]
        V       == [i \in 1..N |-> RatDiv(Num(1), weights[i])]
    IN  [c    |-> Objective(R),
         A_ub |-> InequalityRows(C, V),
         b_ub |-> desired \o Scale(Num(-1), desired),
         A_eq |-> EqualityConstraint(R).A_eq,
         b_eq |-> EqualityConstraint(R).b_eq]

(* ---------------------------- solve_linprog --------------------------- *)

\* taps = 0.5*np.concatenate((p[:0:-1], [2*p[0]], p[1:])) with p = x[:-1]
Taps_NotReversed(x) ==
    LET p == SubSeq(x, 1, Len(x) - 1)
    IN  Scale(Half, Tail(p) \o <<RatMul(Num(2), p[1])>> \o Tail(p))

Taps(x) ==
    LET p == SubSeq(x, 1, Len(x) - 1)
    IN  Scale(Half, Reverse(Tail(p)) \o <<RatMul(Num(2), p[1])>> \o Tail(p))

(* ------------------------- the warnings module ------------------------ *)

\* the entry warnings.simplefilter('error') inserts: it matches every category
ErrorFilter == [action |-> "error", category |-> "Warning"]

\* the filter list of a fresh interpreter (no entry promotes to an error)
DefaultFilters ==
    <<[action |-> "default", category |-> "DeprecationWarning"],
      [action |-> "ignore", category |-> "ImportWarning"]>>

InitialFilters == {<<>>, DefaultFilters}

\* the warnings linprog may emit: category and text
SolverWarnings ==
    {[kind |-> "RuntimeWarning", text |-> "overflow encountered in matmul"],
     [kind |-> "OptimizeWarning", text |-> "Ill-conditioned matrix detected"]}

IsSubclass(cat, base) == base = "Warning" \/ cat = base

RECURSIVE FilterAction(_, _)
FilterAction(list, cat) ==
    IF list = <<>> THEN "default"
    ELSE IF IsSubclass(cat, Head(list).category) THEN Head(list).action
    ELSE FilterAction(Tail(list), cat)

RECURSIVE RemoveFirst(_, _)
RemoveFirst(list, item) ==
    IF list = <<>> THEN <<>>
    ELSE IF Head(list) = item THEN Tail(list)
    ELSE <<Head(list)>> \o RemoveFirst(Tail(list), item)

\* warnings.simplefilter('error') on the list in force
SimpleFilterError(list) == <<ErrorFilter>> \o RemoveFirst(list, ErrorFilter)

InWith(t) == pc[t] \in {"simplefilter", "linprog", "exit"}

NewId == CHOOSE i \in 1..(Cardinality(Threads) + 1) : i \notin DOMAIN lists

\* list objects still referenced once caller t has left its with block
Live(t, cur) == {cur} \cup {saved[u] : u \in {v \in Threads \ {t} : InWith(v)}}

(* ---------------------------- the solver ------------------------------ *)

Statuses ==
    {[success |-> TRUE, message |-> "Optimization terminated successfully."],
     [success |-> FALSE, message |-> "The problem is (trivially) infeasible."],
     [success |-> FALSE, message |-> "Iteration limit reached."]}

\* what scipy.optimize.linprog may do on a problem with n variables
SolverBehaviours(n, V) ==
    {[exc |-> [kind |-> "ValueError", msg |-> "Invalid input for linprog"],
      warns |-> None, res |-> None]}
    \cup
    {[exc |-> None, warns |-> w,
      res |-> [success |-> s.success, message |-> s.message, x |-> x]] :
        w \in {None} \cup SolverWarnings, s \in Statuses,
        x \in [1..n -> {Num(v) : v \in V}]}

(* ------------------------------ inputs -------------------------------- *)

AllArgs ==
    {[numtaps |-> n, deltap |-> Rat(d[1], 1000), deltas |-> Rat(d[2], 1000),
      cutoff |-> c, width |-> w, fs |-> f] :
        n \in 1..MaxNumtaps, d \in {<<1, 2>>, <<2, 1>>},
        c \in 1..MaxCutoff, w \in 0..MaxWidth, f \in {5, 16}}

XVals == (-1)..MaxVal

ConcArgs ==
    {[numtaps |-> 1, deltap |-> Rat(1, 1000), deltas |-> Rat(2, 1000),
      cutoff |-> 1, width |-> 1, fs |-> 5]}

ConcXVals == {1}

(* ------------------------------ actions ------------------------------- *)

Init ==
    /\ pc = [t \in Threads |-> "idle"]
    /\ args = [t \in Threads |-> None]
    /\ grid = [t \in Threads |-> None]
    /\ lp = [t \in Threads |-> None]
    /\ saved = [t \in Threads |-> 0]
    /\ linprog_warning = [t \in Threads |-> None]
    /\ result = [t \in Threads |-> None]
    /\ pending = [t \in Threads |-> None]
    /\ outcome = [t \in Threads |-> None]
    /\ warned = [t \in Threads |-> None]
    /\ invoked = [t \in Threads |-> FALSE]
    /\ filters0 \in InitialFilters
    /\ lists = (1 :> filters0)
    /\ filters = 1

\* firlp_lowpass1 up to the call of solve_linprog (lines 56-108)
Firlp(t, A) ==
    /\ pc[t] = "idle"
    /\ \E a \in A :
        /\ args' = [args EXCEPT ![t] = a]
        /\ IF GridRaises(a)
           THEN /\ outcome' = [outcome EXCEPT ![t] =
                        [kind |-> "ValueError",
                         msg |-> "Number of samples must be non-negative"]]
                /\ pc' = [pc EXCEPT ![t] = "done"]
                /\ UNCHANGED <<grid, lp>>
           ELSE /\ grid' = [grid EXCEPT ![t] = BuildGrid(a)]
                /\ lp' = [lp EXCEPT ![t] = BuildLP(a, BuildGrid(a))]
                /\ pc' = [pc EXCEPT ![t] = "enter"]
                /\ UNCHANGED outcome
    /\ UNCHANGED <<saved, linprog_warning, result, pending, warned, invoked,
                   lists, filters, filters0>>

\* a direct call solve_linprog(c, A_ub, b_ub, A_eq, b_eq) on R+2 variables,
\* with the objective and the equality row of firlp_lowpass1 and no
\* inequality rows (line 10)
CallSolveLinprog(t) ==
    /\ pc[t] = "idle"
    /\ \E R \in 0..MaxR :
        lp' = [lp EXCEPT ![t] =
                [c |-> Objective(R), A_ub |-> <<>>, b_ub |-> <<>>,
                 A_eq |-> EqualityConstraint(R).A_eq,
                 b_eq |-> EqualityConstraint(R).b_eq]]
    /\ pc' = [pc EXCEPT ![t] = "enter"]
    /\ UNCHANGED <<args, grid, saved, linprog_warning, result, pending, outcome,
                   warned, invoked, lists, filters, filters0>>

\* with warnings.catch_warnings(): __enter__ keeps the list in force and
\* puts a copy of it in force (line 29)
CatchWarningsEnter(t) ==
    /\ pc[t] = "enter"
    /\ saved' = [saved EXCEPT ![t] = filters]
    /\ lists' = (NewId :> lists[filters]) @@ lists
    /\ filters' = NewId
    /\ pc' = [pc EXCEPT ![t] = "simplefilter"]
    /\ UNCHANGED <<args, grid, lp, linprog_warning, result, pending, outcome,
                   warned, invoked, filters0>>

\* warnings.simplefilter('error'); linprog_warning = None (lines 30-31)
SimpleFilter(t) ==
    /\ pc[t] = "simplefilter"
    /\ lists' = [lists EXCEPT ![filters] = SimpleFilterError(lists[filters])]
    /\ linprog_warning' = [linprog_warning EXCEPT ![t] = None]
    /\ pc' = [pc EXCEPT ![t] = "linprog"]
    /\ UNCHANGED <<args, grid, lp, saved, result, pending, outcome, warned,
                   invoked, filters, filters0>>

\* the try block: result = linprog(...) except RuntimeWarning (lines 32-39)
Linprog(t, V) ==
    /\ pc[t] = "linprog"
    /\ invoked' = [invoked EXCEPT ![t] = TRUE]
    /\ \E s \in SolverBehaviours(Len(lp[t].c), V) :
        LET raised == /\ s.warns # None
                      /\ FilterAction(lists[filters], s.warns.kind) = "error"
            caught == raised /\ IsSubclass(s.warns.kind, "RuntimeWarning")
        IN  /\ warned' = [warned EXCEPT ![t] = s.warns]
            /\ linprog_warning' = [linprog_warning EXCEPT ![t] =
                    IF caught THEN [kind |-> s.warns.kind, args |-> <<s.warns.text>>]
                    ELSE @]
            /\ pending' = [pending EXCEPT ![t] =
                    IF s.exc # None THEN s.exc
                    ELSE IF raised /\ ~caught
                         THEN [kind |-> s.warns.kind, msg |-> s.warns.text]
                    ELSE None]
            /\ result' = [result EXCEPT ![t] =
                    IF s.exc # None \/ raised THEN @ ELSE s.res]
    /\ pc' = [pc EXCEPT ![t] = "exit"]
    /\ UNCHANGED <<args, grid, lp, saved, outcome, lists, filters, filters0>>

\* catch_warnings.__exit__ puts the kept list back in force; an exception
\* that was not caught leaves solve_linprog and firlp_lowpass1
CatchWarningsExit_NotOnException(t) ==
    /\ pc[t] = "exit"
    /\ filters' = IF pending[t] # None THEN filters ELSE saved[t]
    /\ lists' = [i \in Live(t, filters') |-> lists[i]]
    /\ saved' = [saved EXCEPT ![t] = 0]
    /\ IF pending[t] # None
       THEN /\ outcome' = [outcome EXCEPT ![t] = pending[t]]
            /\ pc' = [pc EXCEPT ![t] = "done"]
       ELSE /\ pc' = [pc EXCEPT ![t] = "finish"]
            /\ UNCHANGED outcome
    /\ pending' = [pending EXCEPT ![t] = None]
    /\ UNCHANGED <<args, grid, lp, linprog_warning, result, warned, invoked,
                   filters0>>

CatchWarningsExit(t) ==
    /\ pc[t] = "exit"
    /\ filters' = saved[t]
    /\ lists' = [i \in Live(t, saved[t]) |-> lists[i]]
    /\ saved' = [saved EXCEPT ![t] = 0]
    /\ IF pending[t] # None
       THEN /\ outcome' = [outcome EXCEPT ![t] = pending[t]]
            /\ pc' = [pc EXCEPT ![t] = "done"]
       ELSE /\ pc' = [pc EXCEPT ![t] = "finish"]
            /\ UNCHANGED outcome
    /\ pending' = [pending EXCEPT ![t] = None]
    /\ UNCHANGED <<args, grid, lp, linprog_warning, result, warned, invoked,
                   filters0>>

\* lines 41-53: converted warning, solver failure, or the taps
Finish_NoSuccessCheck(t) ==
    /\ pc[t] = "finish"
    /\ outcome' = [outcome EXCEPT ![t] =
            IF linprog_warning[t] # None
            THEN [kind |-> "RuntimeWarning",
                  msg |-> <<"linprog warning converted to error",
                            linprog_warning[t].args>>]
            ELSE [kind |-> "taps", taps |-> Taps(result[t].x)]]
    /\ pc' = [pc EXCEPT ![t] = "done"]
    /\ UNCHANGED <<args, grid, lp, saved, linprog_warning, result, pending,
                   warned, invoked, lists, filters, filters0>>

Finish(t) ==
    /\ pc[t] = "finish"
    /\ outcome' = [outcome EXCEPT ![t] =
            IF linprog_warning[t] # None
            THEN [kind |-> "RuntimeWarning",
                  msg |-> <<"linprog warning converted to error",
                            linprog_warning[t].args>>]
            ELSE IF ~result[t].success
            THEN [kind |-> "RuntimeError",
                  msg |-> <<"linprog failed", result[t].message>>]
            ELSE [kind |-> "taps", taps |-> Taps(result[t].x)]]
    /\ pc' = [pc EXCEPT ![t] = "done"]
    /\ UNCHANGED <<args, grid, lp, saved, linprog_warning, result, pending,
                   warned, invoked, lists, filters, filters0>>

\* the design call is over; its locals are gone and the caller may call again
Return(t) ==
    /\ pc[t] = "done"
    /\ pc' = [pc EXCEPT ![t] = "idle"]
    /\ args' = [args EXCEPT ![t] = None]
    /\ grid' = [grid EXCEPT ![t] = None]
    /\ lp' = [lp EXCEPT ![t] = None]
    /\ linprog_warning' = [linprog_warning EXCEPT ![t] = None]
    /\ result' = [result EXCEPT ![t] = None]
    /\ outcome' = [outcome EXCEPT ![t] = None]
    /\ warned' = [warned EXCEPT ![t] = None]
    /\ invoked' = [invoked EXCEPT ![t] = FALSE]
    /\ UNCHANGED <<saved, pending, lists, filters, filters0>>

\* one caller, as the script runs it
Next ==
    \E t \in {1} :
        \/ Firlp(t, AllArgs)
        \/ CatchWarningsEnter(t)
        \/ SimpleFilter(t)
        \/ Linprog(t, XVals)
        \/ CatchWarningsExit(t)
        \/ Finish(t)
        \/ Return(t)

Spec == Init /\ [][Next]_vars

\* two callers in two threads of one interpreter
NextConc ==
    \E t \in Threads :
        \/ Firlp(t, ConcArgs)
        \/ CatchWarningsEnter(t)
        \/ SimpleFilter(t)
        \/ Linprog(t, ConcXVals)
        \/ CatchWarningsExit(t)
        \/ Finish(t)
        \/ Return(t)

SpecConc == Init /\ [][NextConc]_vars

\* one caller of solve_linprog itself
NextSolve ==
    \E t \in {1} :
        \/ CallSolveLinprog(t)
        \/ CatchWarningsEnter(t)
        \/ SimpleFilter(t)
        \/ Linprog(t, XVals)
        \/ CatchWarningsExit(t)
        \/ Finish(t)
        \/ Return(t)

SpecSolve == Init /\ [][NextSolve]_vars

(* ------------------------------ claims -------------------------------- *)

Returned(t) == outcome[t].kind = "taps"
SlackOf(x) == x[Len(x)]
HalfCoefficients(x) == SubSeq(x, 1, Len(x) - 1)

\* C1: the taps rebuilt from a solution x of length R+2 are symmetric about
\* the centre, the centre tap is x[0], and both taps at distance k from the
\* centre are 0.5*x[k], for k in 1..R.
C1_Symmetry ==
    \A t \in Threads :
        Returned(t) =>
            LET x    == result[t].x
                taps == outcome[t].taps
                n    == Len(taps)
                R    == Len(x) - 2
            IN  /\ \A i \in 1..n : taps[i] = taps[n + 1 - i]
                /\ taps[R + 1] = x[1]
                /\ \A k \in 1..R :
                    /\ taps[R + 1 - k] = RatMul(Half, x[k + 1])
                    /\ taps[R + 1 + k] = RatMul(Half, x[k + 1])

\* a returned array of at least five taps whose two outer taps on one side
\* differ, so that the mirroring is visible
C1_Witness ==
    \E t \in Threads :
        /\ Returned(t)
        /\ Len(outcome[t].taps) >= 5
        /\ outcome[t].taps[1] # outcome[t].taps[2]
        /\ outcome[t].taps[3] # Num(0)

\* C2: the taps sum to x[0] + sum(x[1..R]), the slack entry adding nothing;
\* when x satisfies the equality row built by firlp_lowpass1 the sum is 1.
C2_DCNormalization ==
    \A t \in Threads :
        Returned(t) /\ args[t] # None =>
            LET x == result[t].x
            IN  /\ RatSum(outcome[t].taps) = RatSum(HalfCoefficients(x))
                /\ Dot(lp[t].A_eq[1], x) = lp[t].b_eq[1]
                     => RatSum(outcome[t].taps) = Num(1)

\* taps returned for a solution that meets the equality row with a
\* nonzero slack entry and a nonzero side coefficient
C2_Witness ==
    \E t \in Threads :
        /\ Returned(t) /\ args[t] # None
        /\ Dot(lp[t].A_eq[1], result[t].x) = lp[t].b_eq[1]
        /\ SlackOf(result[t].x) # Num(0)
        /\ Len(result[t].x) = 3
        /\ result[t].x[2] # Num(0)

\* C3: every returned array has exactly numtaps entries, and no array is
\* returned for an even numtaps (the claim has such a call rejected).
C3_OddLength ==
    \A t \in Threads :
        Returned(t) /\ args[t] # None =>
            /\ Len(outcome[t].taps) = args[t].numtaps
            /\ args[t].numtaps % 2 = 1

\* C4: a call during which linprog emitted a warning, whatever its
\* category, ends in the converted-warning error carrying the warning's text.
C4_WarningPropagation ==
    \A t \in Threads :
        pc[t] = "done" /\ warned[t] # None =>
            outcome[t] = [kind |-> "RuntimeWarning",
                          msg |-> <<"linprog warning converted to error",
                                    <<warned[t].text>>>>]

\* C5: when linprog returns without a warning and without success, the call
\* ends in RuntimeError('linprog failed: <message>'), which is not the
\* converted-warning error, and no taps are built.
C5_SolverFailure ==
    \A t \in Threads :
        pc[t] = "done" /\ warned[t] = None /\ result[t] # None
                /\ ~result[t].success =>
            /\ outcome[t] = [kind |-> "RuntimeError",
                             msg |-> <<"linprog failed", result[t].message>>]
            /\ outcome[t].kind # "RuntimeWarning"
            /\ ~Returned(t)

\* a call that ended in the solver-failure error on the iteration limit
C5_Witness ==
    \E t \in Threads :
        /\ pc[t] = "done" /\ warned[t] = None /\ result[t] # None
        /\ ~result[t].success
        /\ result[t].message = "Iteration limit reached."
        /\ outcome[t].kind = "RuntimeError"

\* the degenerate specs of C6: wp >= ws, or no pass-band sample left after
\* frequency 0 is dropped, or no stop-band sample
Degenerate(a) ==
    \/ ~RatLt(BandEdges(a).wp, BandEdges(a).ws)
    \/ DropFirst(Linspace(Num(0), BandEdges(a).wp, NumfreqsPass(a))) = <<>>
    \/ Linspace(BandEdges(a).ws, Num(1), NumfreqsStop(a)) = <<>>

\* C6: during a call on a degenerate spec linprog is never invoked and no
\* taps are returned (the claim has such a call rejected before the solve).
C6_DegenerateRejected ==
    \A t \in Threads :
        args[t] # None /\ Degenerate(args[t]) => ~invoked[t] /\ ~Returned(t)

\* the points (p, t) the two-sided bound of C7 is tried on
TrialPoints(R) == [1..(R + 2) -> {Num(v) : v \in XVals}]

RatAbs(a) == [num |-> Abs(a.num), den |-> a.den]

\* C7: for N grid points the inequality system has 2N rows over R+2
\* variables, upper rows first; row i is (C(w_i), -1/weight_i) with bound
\* desired_i, row N+i is (-C(w_i), -1/weight_i) with bound -desired_i; a
\* point satisfies both iff |C(w_i).p - desired_i| <= t/weight_i; the
\* objective is 1 at the slack position and 0 elsewhere.
C7_MinimaxEncoding ==
    \A t \in Threads :
        pc[t] = "enter" /\ args[t] # None =>
            LET wgrid   == grid[t].wpgrid \o grid[t].wsgrid
                N       == Len(wgrid)
                R       == HalfLength(args[t].numtaps)
                A       == lp[t].A_ub
                b       == lp[t].b_ub
                weight  == Weights(args[t], grid[t])
                desired == Desired(grid[t])
            IN  /\ Len(A) = 2 * N /\ Len(b) = 2 * N
                /\ \A r \in 1..(2 * N) : Len(A[r]) = R + 2
                /\ \A i \in 1..N :
                    /\ A[i] = CosRow(wgrid[i], R)
                                \o <<RatNeg(RatDiv(Num(1), weight[i]))>>
                    /\ b[i] = desired[i]
                    /\ A[N + i] = Scale(Num(-1), CosRow(wgrid[i], R))
                                \o <<RatNeg(RatDiv(Num(1), weight[i]))>>
                    /\ b[N + i] = RatNeg(desired[i])
                    /\ \A x \in TrialPoints(R) :
                        (RatLeq(Dot(A[i], x), b[i])
                            /\ RatLeq(Dot(A[N + i], x), b[N + i]))
                        <=> RatLeq(RatAbs(RatSub(Dot(CosRow(wgrid[i], R),
                                                     HalfCoefficients(x)),
                                                 desired[i])),
                                   RatDiv(SlackOf(x), weight[i]))
                /\ Len(lp[t].c) = R + 2
                /\ \A j \in 1..(R + 2) :
                    lp[t].c[j] = IF j = R + 2 THEN Num(1) ELSE Num(0)

\* a program over three variables with samples in both bands
C7_Witness ==
    \E t \in Threads :
        /\ pc[t] = "enter" /\ args[t] # None
        /\ HalfLength(args[t].numtaps) = 1
        /\ Len(grid[t].wpgrid) >= 2 /\ Len(grid[t].wsgrid) >= 2
        /\ Len(lp[t].A_ub) = 2 * (Len(grid[t].wpgrid) + Len(grid[t].wsgrid))

StrictlyIncreasing(s) == \A i \in 1..(Len(s) - 1) : RatLt(s[i], s[i + 1])

ValidEdges(g) ==
    RatLt(Num(0), g.wp) /\ RatLt(g.wp, g.ws) /\ RatLt(g.ws, Num(1))

\* C8: when 0 < wp < ws < pi the pass-band grid is strictly increasing in
\* (0, wp], the stop-band grid is strictly increasing in [ws, pi], and
\* every pass-band point lies strictly below every stop-band point.
C8_GridMonotonicity ==
    \A t \in Threads :
        pc[t] = "enter" /\ args[t] # None /\ ValidEdges(grid[t]) =>
            LET g == grid[t]
            IN  /\ StrictlyIncreasing(g.wpgrid)
                /\ \A i \in 1..Len(g.wpgrid) :
                    RatLt(Num(0), g.wpgrid[i]) /\ RatLeq(g.wpgrid[i], g.wp)
                /\ StrictlyIncreasing(g.wsgrid)
                /\ \A i \in 1..Len(g.wsgrid) :
                    RatLeq(g.ws, g.wsgrid[i]) /\ RatLeq(g.wsgrid[i], Num(1))
                /\ \A i \in 1..Len(g.wpgrid), j \in 1..Len(g.wsgrid) :
                    RatLt(g.wpgrid[i], g.wsgrid[j])

\* a valid spec whose grids have several points each, reaching wp and pi
C8_Witness ==
    \E t \in Threads :
        /\ pc[t] = "enter" /\ args[t] # None /\ ValidEdges(grid[t])
        /\ Len(grid[t].wpgrid) >= 3 /\ Len(grid[t].wsgrid) >= 3
        /\ grid[t].wpgrid[Len(grid[t].wpgrid)] = grid[t].wp
        /\ grid[t].wsgrid[Len(grid[t].wsgrid)] = Num(1)

ErrorInForce == \E i \in 1..Len(lists[filters]) : lists[filters][i] = ErrorFilter

Promoted(t) ==
    /\ outcome[t].kind = warned[t].kind
    /\ outcome[t].kind \in {w.kind : w \in SolverWarnings}

\* C9: with two concurrent calls, each call's solve runs under the
\* warnings-are-errors policy, and a warning emitted during a call's solve
\* ends that call in the warning raised as an error.
C9_PolicyLocal ==
    \A t \in Threads :
        /\ pc[t] = "linprog" => ErrorInForce
        /\ pc[t] = "done" /\ warned[t] # None => Promoted(t)

\* C10: with one caller, outside the with block the filter list in force is
\* the one from before the first call, on every exit path; the 'error'
\* filter is in force only around the call of linprog.
C10_FiltersRestored ==
    /\ ~InWith(1) => lists[filters] = filters0
    /\ ErrorInForce => pc[1] \in {"linprog", "exit"}

\* the call left the with block on an exception linprog raised, after the
\* 'error' filter had been put in force
C10_Witness ==
    /\ pc[1] = "done"
    /\ invoked[1]
    /\ outcome[1].kind \in {"ValueError", "OptimizeWarning"}
    /\ lists[filters] = filters0
    /\ ~ErrorInForce

====
